---- MODULE Spec2Model ----
(***************************************************************************)
(* net-ping (src/main.py): the probe session of main() and the single     *)
(* probe of send_ping(), as a state machine.  One action per statement    *)
(* group of the source; the environment (resolver, socket layer, clock)   *)
(* is a nondeterministic choice at the call that consults it.             *)
(*                                                                         *)
(* Time is counted in clock ticks, TicksPerSecond ticks to the second.    *)
(* time.time() is the wall clock: between two reads it advances by the    *)
(* real time that passed plus any adjustment made to it (ClockSteps).     *)
(* Floats are modelled exactly: a response time is an integer number of   *)
(* milliseconds, an average is the pair <<numerator, denominator>>, and   *)
(* the ':.2f' format is a rounding to integer hundredths.                 *)
(***************************************************************************)
EXTENDS Integers, Sequences, FiniteSets, TLC

\* ---------------------------------------------------------------- bounds
MaxCount == 4
MaxTimeout == 1
MaxClock == 1

\* ------------------------------------------------------------- constants
MsPerSecond == 1000
TicksPerSecond == 100
RootLevel == 20

VARIABLES count, timeout, pc, i, successful_pings, total_time, response_time,
          average_time, start_time, end_time, waited, exc, socks, created,
          log, returns, calls

vars == <<count, timeout, pc, i, successful_pings, total_time, response_time,
          average_time, start_time, end_time, waited, exc, socks, created,
          log, returns, calls>>

\* Python's None, and a value that is not None
None == <<>>
Some(x) == <<x>>
Val(o) == o[1]

\* ------------------------------------------------------------ logging
\* numeric levels of the logging module
Levels == [DEBUG |-> 10, INFO |-> 20, WARNING |-> 30, ERROR |-> 40]

Ev(kind, args) == [kind |-> kind, args |-> args]

\* a logger that lets every record through
Emit_unfiltered(lg, level, ev) == Append(lg, ev)

\* logging.<level>(...): the root logger drops records below its level
Emit(lg, level, ev) == IF Levels[level] >= RootLevel THEN Append(lg, ev) ELSE lg

\* f'{x:.2f}' of the number num/den (den > 0): the nearest hundredth, as an
\* integer number of hundredths
Fmt2(num, den) == (2 * (num * 100) + den) \div (2 * den)

\* ------------------------------------------------------------ exceptions
\* the exception classes that send_ping's calls raise, with their base class
Parent == [gaierror |-> "OSError", timeout |-> "OSError", OSError |-> "Exception",
           UnicodeError |-> "ValueError", ValueError |-> "Exception",
           Exception |-> "BaseException", BaseException |-> "object"]

RECURSIVE IsSubclass(_, _)
IsSubclass(c, d) ==
    IF c = d THEN TRUE
    ELSE IF c = "object" THEN FALSE
    ELSE IsSubclass(Parent[c], d)

\* a last clause that catches only socket-layer errors
ExceptClauses_OSErrorOnly == <<"gaierror", "timeout", "OSError">>

\* the except clauses of send_ping, in source order
ExceptClauses == <<"gaierror", "timeout", "Exception">>

\* the clause that handles exception e: the first one whose class e is an
\* instance of; an exception no clause matches leaves send_ping
HandlerPc(e) ==
    LET matching == {k \in 1..Len(ExceptClauses) : IsSubclass(e, ExceptClauses[k])}
    IN  IF matching = {} THEN "crashed"
        ELSE LET k == CHOOSE m \in matching : \A n \in matching : m <= n
             IN  "except_" \o ExceptClauses[k]

\* a socket that is closed only on the normal path
SocksAfterRaise_leak(s) == s

\* what the with statement leaves open when an exception passes through it
SocksAfterRaise(s) == 0

\* ------------------------------------------------------------ environment
\* the deadline of one socket operation, in ticks
Deadline == timeout * TicksPerSecond

\* how long sendto can block; a wait beyond the deadline is abandoned
SendWaits == {0, 1, Deadline, Deadline + 1}
\* how long recvfrom can wait for a datagram
RecvWaits == {1, Deadline + 1}
\* adjustments of the wall clock between the two reads
ClockSteps == {0, -2}
\* values of the wall clock at the first read
ClockReads == 0..MaxClock
\* failures of gethostbyname
ResolveErrors == {"gaierror", "UnicodeError"}

\* ------------------------------------------------------------------ Init
Init ==
    /\ count \in -1..MaxCount
    /\ timeout \in 1..MaxTimeout
    /\ pc = "start"
    /\ i = 0
    /\ successful_pings = 0
    /\ total_time = 0
    /\ response_time = None
    /\ average_time = None
    /\ start_time = None
    /\ end_time = None
    /\ waited = 0
    /\ exc = None
    /\ socks = 0
    /\ created = 0
    /\ log = <<>>
    /\ returns = <<>>
    /\ calls = 0

\* ------------------------------------------------------------------ main
\* lines 92-95
Start ==
    /\ pc = "start"
    /\ log' = Emit(log, "INFO", Ev("start", <<count, timeout>>))
    /\ successful_pings' = 0
    /\ total_time' = 0
    /\ pc' = "loop"
    /\ UNCHANGED <<count, timeout, i, response_time, average_time, start_time,
                   end_time, waited, exc, socks, created, returns, calls>>

\* a loop that runs once more than count
HasNext_offbyone(k, n) == k <= n

\* range(args.count): whether another iteration follows
HasNext(k, n) == k < n

\* lines 97-99: the loop head, the 'sending' message and the call of send_ping
LoopHead ==
    /\ pc = "loop"
    /\ IF HasNext(i, count)
       THEN /\ log' = Emit(log, "INFO", Ev("sending", <<i + 1>>))
            /\ calls' = calls + 1
            /\ created' = 0
            /\ pc' = "resolve"
       ELSE /\ pc' = "summary"
            /\ UNCHANGED <<log, calls, created>>
    /\ UNCHANGED <<count, timeout, i, successful_pings, total_time, response_time,
                   average_time, start_time, end_time, waited, exc, socks, returns>>

\* ------------------------------------------------------------- send_ping
\* lines 58-59
Resolve ==
    /\ pc = "resolve"
    /\ \/ /\ log' = Emit(log, "DEBUG", Ev("resolved", <<>>))
          /\ pc' = "socket"
          /\ exc' = None
       \/ \E e \in ResolveErrors :
            /\ exc' = Some(e)
            /\ pc' = HandlerPc(e)
            /\ log' = log
    /\ UNCHANGED <<count, timeout, i, successful_pings, total_time, response_time,
                   average_time, start_time, end_time, waited, socks, created,
                   returns, calls>>

\* lines 62-65: socket(), settimeout and the first clock read
OpenSocket ==
    /\ pc = "socket"
    /\ \/ /\ socks' = socks + 1
          /\ created' = created + 1
          /\ \E t \in ClockReads : start_time' = Some(t)
          /\ waited' = 0
          /\ pc' = "send"
          /\ exc' = None
       \/ /\ exc' = Some("OSError")
          /\ pc' = HandlerPc("OSError")
          /\ UNCHANGED <<socks, created, start_time, waited>>
    /\ UNCHANGED <<count, timeout, i, successful_pings, total_time, response_time,
                   average_time, end_time, log, returns, calls>>

\* line 66
SendTo ==
    /\ pc = "send"
    /\ \/ \E d \in SendWaits :
            IF d > Deadline
            THEN /\ exc' = Some("timeout")
                 /\ pc' = HandlerPc("timeout")
                 /\ socks' = SocksAfterRaise(socks)
                 /\ start_time' = None
                 /\ waited' = 0
            ELSE /\ waited' = d
                 /\ pc' = "recv"
                 /\ UNCHANGED <<exc, socks, start_time>>
       \/ /\ exc' = Some("OSError")
          /\ pc' = HandlerPc("OSError")
          /\ socks' = SocksAfterRaise(socks)
          /\ start_time' = None
          /\ waited' = 0
    /\ UNCHANGED <<count, timeout, i, successful_pings, total_time, response_time,
                   average_time, end_time, created, log, returns, calls>>

\* lines 67-68: recvfrom and the second clock read
RecvFrom ==
    /\ pc = "recv"
    /\ \/ \E d \in RecvWaits :
            IF d > Deadline
            THEN /\ exc' = Some("timeout")
                 /\ pc' = HandlerPc("timeout")
                 /\ socks' = SocksAfterRaise(socks)
                 /\ start_time' = None
                 /\ end_time' = None
                 /\ waited' = 0
            ELSE /\ \E step \in ClockSteps :
                      end_time' = Some(Val(start_time) + waited + d + step)
                 /\ waited' = waited + d
                 /\ pc' = "with_exit"
                 /\ UNCHANGED <<exc, socks, start_time>>
       \/ /\ exc' = Some("OSError")
          /\ pc' = HandlerPc("OSError")
          /\ socks' = SocksAfterRaise(socks)
          /\ start_time' = None
          /\ end_time' = None
          /\ waited' = 0
    /\ UNCHANGED <<count, timeout, i, successful_pings, total_time, response_time,
                   average_time, created, log, returns, calls>>

\* line 70: the elapsed time in milliseconds
ResponseTime(s, e) == ((e - s) * MsPerSecond) \div TicksPerSecond

\* the end of the with block, and lines 70-71
WithExit ==
    /\ pc = "with_exit"
    /\ socks' = socks - 1
    /\ response_time' = Some(ResponseTime(Val(start_time), Val(end_time)))
    /\ returns' = Append(returns, response_time')
    /\ start_time' = None
    /\ end_time' = None
    /\ waited' = 0
    /\ pc' = "classify"
    /\ UNCHANGED <<count, timeout, i, successful_pings, total_time, average_time,
                   exc, created, log, calls>>

\* lines 72-74
ExceptGaierror ==
    /\ pc = "except_gaierror"
    /\ log' = Emit(log, "ERROR", Ev("resolve_failed", <<>>))
    /\ response_time' = None
    /\ returns' = Append(returns, None)
    /\ exc' = None
    /\ pc' = "classify"
    /\ UNCHANGED <<count, timeout, i, successful_pings, total_time, average_time,
                   start_time, end_time, waited, socks, created, calls>>

\* lines 75-77
ExceptTimeout ==
    /\ pc = "except_timeout"
    /\ log' = Emit(log, "WARNING", Ev("timed_out", <<>>))
    /\ response_time' = None
    /\ returns' = Append(returns, None)
    /\ exc' = None
    /\ pc' = "classify"
    /\ UNCHANGED <<count, timeout, i, successful_pings, total_time, average_time,
                   start_time, end_time, waited, socks, created, calls>>

\* lines 78-80
ExceptException ==
    /\ pc = "except_Exception"
    /\ log' = Emit(log, "ERROR", Ev("error", exc))
    /\ response_time' = None
    /\ returns' = Append(returns, None)
    /\ exc' = None
    /\ pc' = "classify"
    /\ UNCHANGED <<count, timeout, i, successful_pings, total_time, average_time,
                   start_time, end_time, waited, socks, created, calls>>

\* ------------------------------------------------------- main, continued
\* 'if response_time:' takes a response of 0.0 ms for no response
Responded_truthy(r) == r # None /\ Val(r) # 0

\* a failed attempt that ends the loop
AfterAttempt_break(r) == IF r = None THEN "summary" ELSE "loop"

\* line 101: the test that tells a response from no response
Responded(r) == r # None

\* where the loop goes after an attempt
AfterAttempt(r) == "loop"

\* lines 101-106
Classify ==
    /\ pc = "classify"
    /\ IF Responded(response_time)
       THEN /\ log' = Emit(log, "INFO",
                           Ev("response", <<i + 1, Fmt2(Val(response_time), 1)>>))
            /\ successful_pings' = successful_pings + 1
            /\ total_time' = total_time + Val(response_time)
       ELSE /\ log' = Emit(log, "INFO", Ev("no_response", <<i + 1>>))
            /\ UNCHANGED <<successful_pings, total_time>>
    /\ i' = i + 1
    /\ pc' = AfterAttempt(response_time)
    /\ UNCHANGED <<count, timeout, response_time, average_time, start_time,
                   end_time, waited, exc, socks, created, returns, calls>>

\* line 109
Average(total, n) == <<total, n>>

\* lost computed with its operands swapped
Packets_swapped(sent, received) == <<sent, received, received - sent>>

\* line 111: the counts of the statistics line
Packets(sent, received) == <<sent, received, sent - received>>

\* lines 108-114
Summary ==
    /\ pc = "summary"
    /\ IF successful_pings > 0
       THEN /\ average_time' = Average(total_time, successful_pings)
            /\ log' = Emit(Emit(Emit(log,
                        "INFO", Ev("stats_header", <<>>)),
                        "INFO", Ev("packets", Packets(count, successful_pings))),
                        "INFO", Ev("average",
                                   <<Fmt2(average_time'[1], average_time'[2])>>))
       ELSE /\ log' = Emit(log, "INFO", Ev("no_responses", <<>>))
            /\ UNCHANGED average_time
    /\ pc' = "done"
    /\ UNCHANGED <<count, timeout, i, successful_pings, total_time, response_time,
                   start_time, end_time, waited, exc, socks, created, returns, calls>>

Next ==
    \/ Start
    \/ LoopHead
    \/ Resolve
    \/ OpenSocket
    \/ SendTo
    \/ RecvFrom
    \/ WithExit
    \/ ExceptGaierror
    \/ ExceptTimeout
    \/ ExceptException
    \/ Classify
    \/ Summary

Spec == Init /\ [][Next]_vars

\* the interpreter runs the single thread until main returns
FairSpec == Spec /\ WF_vars(Next)


\* ================================================================ claims
\* what the log and the return history show
Kinds(S) == {k \in DOMAIN log : log[k].kind \in S}
OutcomeKinds == {"response", "no_response"}
DiagKinds == {"resolve_failed", "timed_out", "error"}
SummaryKinds == {"stats_header", "packets", "average", "no_responses"}

\* the attempts in which send_ping returned a number
Succeeded == {k \in DOMAIN returns : returns[k] # None}
NumSucc == Cardinality(Succeeded)

RECURSIVE SumOK(_)
SumOK(rs) ==
    IF rs = <<>> THEN 0
    ELSE (IF Head(rs) # None THEN Val(Head(rs)) ELSE 0) + SumOK(Tail(rs))

\* the messages emitted by main alone
MainLog == SelectSeq(log, LAMBDA e : e.kind \notin DiagKinds)

\* the 'sending' messages of the attempts that have completed
CompletedSendings ==
    {k \in DOMAIN log : log[k].kind = "sending" /\ log[k].args[1] <= i}

\* position p no longer belongs to the attempt before it: it is past the end
\* of the log, or holds the next 'sending' message or the summary
IsBoundary(p) ==
    \/ p > Len(log)
    \/ log[p].kind \in SummaryKinds \cup {"sending"}

\* the number of messages between the 'sending' message at k and the next
\* boundary, counted up to 3
LinesAfter(k) ==
    IF IsBoundary(k + 1) THEN 0
    ELSE IF IsBoundary(k + 2) THEN 1
    ELSE IF IsBoundary(k + 3) THEN 2
    ELSE 3

\* C1: for count >= 0 a finished session has called send_ping exactly count
\* times, one call at a time, and has emitted exactly count attempt-outcome
\* messages, whatever the outcomes were
C1_CountAttempts ==
    /\ calls - Len(returns) \in {0, 1}
    /\ (pc = "done" /\ count >= 0) =>
          /\ calls = count
          /\ Len(returns) = count
          /\ Cardinality(Kinds(OutcomeKinds)) = count

C1_Witness ==
    /\ pc = "done"
    /\ count >= 3
    /\ calls = count
    /\ returns[1] = None
    /\ returns[2] # None
    /\ returns[3] = None

C3_Average ==
    pc = "done" =>
        IF NumSucc > 0
        THEN /\ average_time # None
             /\ average_time[2] > 0
             /\ average_time[1] * NumSucc = SumOK(returns) * average_time[2]
             /\ log[Len(log)] = Ev("average", <<Fmt2(SumOK(returns), NumSucc)>>)
        ELSE /\ average_time = None
             /\ Kinds({"average"}) = {}
             /\ log[Len(log)] = Ev("no_responses", <<>>)

\* Success 10, Timeout, Success 20, OtherError: received 2, average 15.00
C3_Witness ==
    /\ pc = "done"
    /\ returns = <<Some(10), None, Some(20), None>>
    /\ SelectSeq(log, LAMBDA e : e.kind \in DiagKinds)
          = <<Ev("timed_out", <<>>), Ev("error", Some("OSError"))>>
    /\ \E k \in DOMAIN log : log[k] = Ev("packets", <<4, 2, 2>>)
    /\ log[Len(log)] = Ev("average", <<1500>>)

C5_Completes == <>(pc = "done") /\ [](pc # "crashed")

C5_Witness ==
    /\ pc = "done"
    /\ count >= 2
    /\ Len(returns) = count
    /\ NumSucc = 0
    /\ Cardinality({log[k].kind : k \in Kinds(DiagKinds)}) = 3
    /\ \E k \in DOMAIN log : log[k] = Ev("error", Some("UnicodeError"))
    /\ log[Len(log)] = Ev("no_responses", <<>>)

\* C6: every elapsed time that send_ping returns is >= 0
C6_NonNegative ==
    \A k \in DOMAIN returns : returns[k] # None => Val(returns[k]) >= 0

\* C7: the accumulator keeps successful_pings <= attempts made,
\* total_time >= 0, and total_time = 0 while successful_pings = 0
C7_Accumulator ==
    /\ successful_pings <= i
    /\ total_time >= 0
    /\ successful_pings = 0 => total_time = 0

\* C8: every elapsed time that send_ping returns is at most the timeout
C8_StrictDeadline ==
    \A k \in DOMAIN returns :
        returns[k] # None => Val(returns[k]) <= timeout * MsPerSecond

\* C9: at most one channel is open, none is open outside the with block of
\* send_ping (so none between attempts or at the summary), and a call that
\* fails to resolve opens none
C9_ChannelReleased ==
    /\ socks \in {0, 1}
    /\ pc \notin {"send", "recv", "with_exit"} => socks = 0
    /\ pc \in {"send", "recv", "with_exit"} => socks = 1 /\ created = 1
    /\ created \in {0, 1}
    /\ pc = "except_gaierror" => created = 0
    /\ (pc = "classify" /\ log[Len(log)].kind = "resolve_failed") => created = 0

C9_Witness ==
    /\ pc = "classify"
    /\ response_time = None
    /\ created = 1
    /\ socks = 0
    /\ log[Len(log)].kind = "timed_out"

\* C10: main's messages come in the order start, then for n = 1, 2, ... the
\* 'sending n' message followed by the outcome of attempt n, then the
\* summary, which only a finished session has and which ends the log
C10_Order ==
    LET ml == MainLog
        body == IF pc = "done" /\ count > 0 THEN 2 * count ELSE 2 * i + 1
    IN  /\ pc # "start" => Len(ml) >= 1 /\ ml[1] = Ev("start", <<count, timeout>>)
        /\ \A p \in 2..Len(ml) :
              \/ /\ p % 2 = 0
                 /\ ml[p] = Ev("sending", <<p \div 2>>)
                 /\ p \div 2 <= count
              \/ /\ p % 2 = 1
                 /\ ml[p].kind \in OutcomeKinds
                 /\ ml[p].args[1] = (p - 1) \div 2
              \/ /\ ml[p].kind \in SummaryKinds
                 /\ pc = "done"
                 /\ p > 1 + 2 * i
                 /\ i >= count
        /\ pc = "done" =>
              /\ Cardinality({p \in DOMAIN ml : ml[p].kind \in OutcomeKinds}) = i
              /\ Cardinality({p \in DOMAIN ml : ml[p].kind = "sending"}) = i
              /\ log[Len(log)].kind \in {"average", "no_responses"}
              /\ Len(ml) - (1 + 2 * i) \in {1, 3}

C10_Witness ==
    /\ pc = "done"
    /\ count >= 2
    /\ NumSucc >= 1
    /\ NumSucc < count
    /\ log[Len(log)].kind = "average"

====
